---- MODULE Spec2Model ----
(***************************************************************************)
(* Model of NuAtlas::ARCPolicy<Key, Value> (Furrballs.h), the page cache   *)
(* of a FurrBall.                                                          *)
(*                                                                         *)
(* Lists are sequences whose first element is the front (MRU) and whose    *)
(* last element is the back (LRU).  A size_t value is represented by its   *)
(* residue in the window around zero: a representative r >= 0 stands for   *)
(* r, a representative r < 0 stands for 2^64 + r.  Addition and            *)
(* subtraction of representatives are then exact modulo 2^64, and the      *)
(* unsigned comparisons are ULt, UMin and UMax below.                      *)
(*                                                                         *)
(* back() and pop_back() on an empty std::list are undefined behaviour.    *)
(* The model gives them two outcomes: the process stops (ub = "crashed"),  *)
(* or back() yields an arbitrary key, pop_back() leaves the list as it is  *)
(* and the call goes on (ub = "continued").                                *)
(*                                                                         *)
(* The second part models FurrBall (Furrballs.h, Furrballs.cpp): the       *)
(* factory CreateBall, the destructor, the process-wide worker thread and  *)
(* its job queue, and floorAddress.                                        *)
(***************************************************************************)
EXTENDS Integers, Sequences, FiniteSets, TLC

\* Bounds of the model.
MaxKey == 2
MaxVal == 1
MaxCap == 2
MaxLen == 3
MaxWrap == 2
MaxThreads == 2
MaxPages == 2
MaxJobs == 3
AddrBits == 5
MaxBufs == 2

Keys == 1..MaxKey
Values == 1..MaxVal
\* Value() for Value = void*.
DefaultValue == 0

VARIABLES t1, t2, b1, b2, map, capacity, p, ub, op, cb, rm

\* The process: the statics of FurrBall, the FurrBall objects (heap), the
\* threads inside CreateBall (calls), the invocations of OnEvict and of the
\* client's callback (hooks), the threads inside a method of one shared
\* ARCPolicy (th), and one evaluation of floorAddress (snap).
VARIABLES HasThreadInit, FurrSlave, JobQueue, OpenBalls, heap, calls, hooks, th, snap

\* MemoryManager: the thread-local ownership sets, the buffers the platform
\* has allocated (with the thread that allocated each), the threads inside
\* AllocateMemory or FreeMemory, and the free mutex of each thread.
VARIABLES ThreadBuffers, platformHeap, mcalls, FreeingMutex

memVars == <<ThreadBuffers, platformHeap, mcalls, FreeingMutex>>

arcVars == <<t1, t2, b1, b2, map, capacity, p, ub, op, cb, rm>>
ballVars == <<HasThreadInit, FurrSlave, JobQueue, OpenBalls, heap, calls, hooks>>

vars == <<t1, t2, b1, b2, map, capacity, p, ub, op, cb, rm,
          HasThreadInit, FurrSlave, JobQueue, OpenBalls, heap, calls, hooks, th, snap,
          ThreadBuffers, platformHeap, mcalls, FreeingMutex>>

----------------------------------------------------------------------------
\* std::list and std::unordered_map primitives.

InList(l, k) == \E i \in 1..Len(l) : l[i] = k
Remove(l, k) == SelectSeq(l, LAMBDA x : x # k)
PushFront(l, k) == <<k>> \o l
Back(l) == l[Len(l)]
PopBack(l) == SubSeq(l, 1, Len(l) - 1)
FirstIndex(l, k) == CHOOSE i \in 1..Len(l) : l[i] = k /\ \A j \in 1..(i - 1) : l[j] # k
SpliceFront(l, k) ==
    LET i == FirstIndex(l, k)
    IN  <<k>> \o SubSeq(l, 1, i - 1) \o SubSeq(l, i + 1, Len(l))

EmptyMap == [x \in {} |-> DefaultValue]
MapSize(m) == Cardinality(DOMAIN m)
MapErase(m, k) == [x \in (DOMAIN m) \ {k} |-> m[x]]
MapPut(m, k, v) == [x \in (DOMAIN m) \cup {k} |-> IF x = k THEN v ELSE m[x]]
\* operator[]: the value read, and the map after the read (a missing key
\* is inserted with a default value).
MapAt(m, k) == IF k \in DOMAIN m THEN m[k] ELSE DefaultValue
MapIndex(m, k) == IF k \in DOMAIN m THEN m ELSE MapPut(m, k, DefaultValue)

\* Unsigned comparison of size_t representatives.
ULt(a, b) == IF (a >= 0) = (b >= 0) THEN a < b ELSE a >= 0
UMin(a, b) == IF ULt(a, b) THEN a ELSE b
UMax(a, b) == IF ULt(b, a) THEN a ELSE b

----------------------------------------------------------------------------
\* The cache as a record, so that the private methods are operators from a
\* cache to the set of caches they can leave behind.

Cur == [t1 |-> t1, t2 |-> t2, b1 |-> b1, b2 |-> b2, map |-> map, p |-> p,
        ub |-> ub, cb |-> <<>>, rm |-> <<>>]

Crash(s) == [s EXCEPT !.ub = "crashed"]
Bind(S, F(_)) == UNION {IF x.ub = "crashed" THEN {x} ELSE F(x) : x \in S}

Contains(m, key) == key \in DOMAIN m

\* Book-keeping, not code: the resident entry at the back of T1 or T2 leaves
\* its list (pop_back on a non-empty t1 or t2).
Removal(s, from, key) ==
    [s EXCEPT !.rm = Append(s.rm, [key |-> key, value |-> MapAt(s.map, key), from |-> from])]

\* evictionCallback(key, map[key])
Callback(s, key) ==
    [s EXCEPT !.cb = Append(s.cb, <<key, MapAt(s.map, key)>>),
              !.map = MapIndex(s.map, key)]

replace(s, key) ==
    IF s.t1 # <<>> /\ (ULt(s.p, Len(s.t1)) \/ (InList(s.b2, key) /\ Len(s.t1) = s.p))
    THEN LET old == Back(s.t1)
         IN  {[Removal(s, "t1", old) EXCEPT !.t1 = PopBack(s.t1),
                                            !.b1 = PushFront(s.b1, old),
                                            !.map = MapErase(s.map, old)]}
    ELSE IF s.t2 # <<>>
         THEN LET old == Back(s.t2)
              IN  {[Removal(s, "t2", old) EXCEPT !.t2 = PopBack(s.t2),
                                                 !.b2 = PushFront(s.b2, old),
                                                 !.map = MapErase(s.map, old)]}
         ELSE {Crash(s)} \cup
              {[s EXCEPT !.b2 = PushFront(s.b2, g),
                         !.map = MapErase(s.map, g),
                         !.ub = "continued"] : g \in Keys}

\* The first step of evict() with the victim of T1 pushed on B1.
evictFirstGhost(s, c) ==
    IF Len(s.t1) + Len(s.b1) >= c
    THEN IF Len(s.t1) < c
         THEN IF s.b1 # <<>>
              THEN {[s EXCEPT !.b1 = PopBack(s.b1)]}
              ELSE {Crash(s), [s EXCEPT !.ub = "continued"]}
         ELSE IF s.t1 # <<>>
              THEN {[Removal(Callback(s, Back(s.t1)), "t1", Back(s.t1))
                        EXCEPT !.t1 = PopBack(s.t1),
                               !.b1 = PushFront(s.b1, Back(s.t1))]}
              ELSE {Crash(s)} \cup
                   {[Callback(s, g) EXCEPT !.ub = "continued"] : g \in Keys}
    ELSE {s}

evictFirst(s, c) ==
    IF Len(s.t1) + Len(s.b1) >= c
    THEN IF Len(s.t1) < c
         THEN IF s.b1 # <<>>
              THEN {[s EXCEPT !.b1 = PopBack(s.b1)]}
              ELSE {Crash(s), [s EXCEPT !.ub = "continued"]}
         ELSE IF s.t1 # <<>>
              THEN {[Removal(Callback(s, Back(s.t1)), "t1", Back(s.t1))
                        EXCEPT !.t1 = PopBack(s.t1)]}
              ELSE {Crash(s)} \cup
                   {[Callback(s, g) EXCEPT !.ub = "continued"] : g \in Keys}
    ELSE {s}

evictSecond(s, c) ==
    IF Len(s.t1) + Len(s.t2) + Len(s.b1) + Len(s.b2) >= 2 * c
    THEN IF Len(s.t2) + Len(s.b2) > c
         THEN IF s.b2 # <<>>
              THEN {[s EXCEPT !.b2 = PopBack(s.b2)]}
              ELSE {Crash(s), [s EXCEPT !.ub = "continued"]}
         ELSE IF s.t2 # <<>>
              THEN {[Removal(Callback(s, Back(s.t2)), "t2", Back(s.t2))
                        EXCEPT !.t2 = PopBack(s.t2)]}
              ELSE {Crash(s)} \cup
                   {[Callback(s, g) EXCEPT !.ub = "continued"] : g \in Keys}
    ELSE {s}

evict(s, c) == Bind(evictFirst(s, c), LAMBDA x : evictSecond(x, c))

TouchBranch(s, key) ==
    IF InList(s.t1, key) THEN "t1"
    ELSE IF InList(s.t2, key) THEN "t2"
    ELSE IF InList(s.b1, key) THEN "b1"
    ELSE IF InList(s.b2, key) THEN "b2"
    ELSE "none"

\* p = min(capacity, p + max(b2.size() / b1.size(), 1UL))
GrowTarget(s, c) == UMin(c, s.p + UMax(Len(s.b2) \div Len(s.b1), 1))
\* p = max(0, static_cast<int>(p) - max(b1.size() / b2.size(), 1UL)): the
\* difference is computed and compared as a size_t.
ShrinkTarget(s) == UMax(0, s.p - UMax(Len(s.b1) \div Len(s.b2), 1))

GhostHit(s, key, ghost) ==
    Bind(replace(s, key),
         LAMBDA x : {[x EXCEPT !.b1 = IF ghost = "b1" THEN Remove(x.b1, key) ELSE x.b1,
                               !.b2 = IF ghost = "b2" THEN Remove(x.b2, key) ELSE x.b2,
                               !.t2 = PushFront(x.t2, key),
                               !.map = MapPut(x.map, key, DefaultValue)]})

\* Touch with the promotion out of T1 appended at the LRU end of T2.
TouchLruEnd(s, key, c) ==
    CASE TouchBranch(s, key) = "t1" ->
            {[s EXCEPT !.t1 = Remove(s.t1, key), !.t2 = Append(s.t2, key)]}
      [] TouchBranch(s, key) = "t2" ->
            {[s EXCEPT !.t2 = SpliceFront(s.t2, key)]}
      [] TouchBranch(s, key) = "b1" ->
            GhostHit([s EXCEPT !.p = GrowTarget(s, c)], key, "b1")
      [] TouchBranch(s, key) = "b2" ->
            GhostHit([s EXCEPT !.p = ShrinkTarget(s)], key, "b2")
      [] OTHER -> {s}

Touch(s, key, c) ==
    CASE TouchBranch(s, key) = "t1" ->
            {[s EXCEPT !.t1 = Remove(s.t1, key), !.t2 = PushFront(s.t2, key)]}
      [] TouchBranch(s, key) = "t2" ->
            {[s EXCEPT !.t2 = SpliceFront(s.t2, key)]}
      [] TouchBranch(s, key) = "b1" ->
            GhostHit([s EXCEPT !.p = GrowTarget(s, c)], key, "b1")
      [] TouchBranch(s, key) = "b2" ->
            GhostHit([s EXCEPT !.p = ShrinkTarget(s)], key, "b2")
      [] OTHER -> {s}

\* Add with the new key appended at the LRU end of T1.
AddLruEnd(s, key, value, c) ==
    Bind(IF MapSize(s.map) >= c THEN evict(s, c) ELSE {s},
         LAMBDA x : {[x EXCEPT !.t1 = Append(x.t1, key),
                               !.map = MapPut(x.map, key, value)]})

Add(s, key, value, c) ==
    Bind(IF MapSize(s.map) >= c THEN evict(s, c) ELSE {s},
         LAMBDA x : {[x EXCEPT !.t1 = PushFront(x.t1, key),
                               !.map = MapPut(x.map, key, value)]})

Get(s, key, c) ==
    Bind(Touch(s, key, c), LAMBDA x : {[x EXCEPT !.map = MapIndex(x.map, key)]})

Set(s, key, value, c) ==
    IF Contains(s.map, key)
    THEN Touch([s EXCEPT !.map = MapPut(s.map, key, value)], key, c)
    ELSE Add(s, key, value, c)

----------------------------------------------------------------------------
\* The public operations as actions.  op describes the last call, cb lists
\* the eviction callbacks it invoked, in order.

Total(s) == Len(s.t1) + Len(s.t2) + Len(s.b1) + Len(s.b2)

Commit(s, call) ==
    /\ Total(s) <= MaxLen
    /\ s.p >= 0 - MaxWrap
    /\ t1' = s.t1
    /\ t2' = s.t2
    /\ b1' = s.b1
    /\ b2' = s.b2
    /\ map' = s.map
    /\ p' = s.p
    /\ ub' = s.ub
    /\ cb' = s.cb
    /\ rm' = s.rm
    /\ op' = [call EXCEPT !.done = (s.ub # "crashed")]
    /\ UNCHANGED <<capacity, ballVars, th, snap, memVars>>

Call(name, key, val, branch) ==
    [name |-> name, key |-> key, val |-> val, branch |-> branch, done |-> TRUE]

AddCall ==
    \E key \in Keys, value \in Values :
        /\ ub # "crashed"
        /\ \E s \in Add(Cur, key, value, capacity) :
              Commit(s, Call("Add", key, value,
                             IF MapSize(map) >= capacity THEN "evict" ELSE "room"))

SetCall ==
    \E key \in Keys, value \in Values :
        /\ ub # "crashed"
        /\ \E s \in Set(Cur, key, value, capacity) :
              Commit(s, Call("Set", key, value,
                             IF Contains(map, key) THEN "touch" ELSE "add"))

TouchCall ==
    \E key \in Keys :
        /\ ub # "crashed"
        /\ \E s \in Touch(Cur, key, capacity) :
              Commit(s, Call("Touch", key, DefaultValue, TouchBranch(Cur, key)))

GetCall ==
    \E key \in Keys :
        /\ ub # "crashed"
        /\ \E s \in Get(Cur, key, capacity) :
              Commit(s, Call("Get", key, MapAt(s.map, key), TouchBranch(Cur, key)))

Threads == 1..MaxThreads

\* No FurrBall object at this place of the heap.
NoBall ==
    [made |-> FALSE, alive |-> FALSE, PageSize |-> 0, SizeLimit |-> 0,
     PreallocatedSlabSize |-> 0, UsedMemory |-> 0,
     cache |-> [t1 |-> <<>>, t2 |-> <<>>, b1 |-> <<>>, b2 |-> <<>>, map |-> EmptyMap,
                p |-> 1, ub |-> "none", cb |-> <<>>, rm |-> <<>>],
     cacheCapacity |-> 0, evictionCallback |-> "noop",
     clientEvictCallback |-> "unset", db |-> "none",
     VPageList |-> <<>>, IsVolatile |-> FALSE, persisted |-> {},
     got |-> [page |-> 0, ret |-> "none", evicted |-> FALSE]]

\* FurrConfig and the answers of the environment (store, memory) to one
\* CreateBall call.
NoInput ==
    [PageSize |-> 0, InitialPageCount |-> 0, CapacityLimit |-> 0,
     LockablePages |-> FALSE, IsVolatile |-> FALSE,
     openOk |-> FALSE, availMem |-> 0, mallocOk |-> FALSE]

NoCall == [pc |-> "idle", in |-> NoInput, ret |-> "none", assumed |-> FALSE]

Buffers == 1..MaxBufs

\* The static members of MemoryManager (MemoryManager.h:45-48): FreeingMutex
\* and ThreadBuffers are thread_local, one of each per thread.  No buffer is
\* allocated.
MemInit ==
    /\ ThreadBuffers = [t \in Threads |-> {}]
    /\ platformHeap = [b \in Buffers |-> 0]
    /\ mcalls = [t \in Threads |-> [pc |-> "idle", buffer |-> 0]]
    /\ FreeingMutex = [t \in Threads |-> FALSE]

\* The static members of FurrBall (Furrballs.h:381-386) before main, and no
\* object, no call.
StaticInit ==
    /\ HasThreadInit = FALSE
    /\ FurrSlave = [starts |-> 0, state |-> "none", ran |-> <<>>]
    /\ JobQueue = <<>>
    /\ OpenBalls = <<>>
    /\ heap = [b \in Threads |-> NoBall]
    /\ calls = [t \in Threads |-> NoCall]
    /\ hooks = [OnEvict |-> <<>>, client |-> <<>>]
    /\ MemInit

NoOp == [pc |-> "idle", name |-> "none", key |-> 0, val |-> DefaultValue,
         from |-> [t1 |-> <<>>, t2 |-> <<>>, map |-> EmptyMap]]
NoSnap == [pc |-> "idle", PageSize |-> 0, address |-> 0, result |-> 0]

IdleInit ==
    /\ th = [t \in Threads |-> NoOp]
    /\ snap = NoSnap

\* ARCPolicy(size_t cap) : capacity(cap), p(1)
Init ==
    /\ capacity \in 0..MaxCap
    /\ t1 = <<>>
    /\ t2 = <<>>
    /\ b1 = <<>>
    /\ b2 = <<>>
    /\ map = EmptyMap
    /\ p = 1
    /\ ub = "none"
    /\ cb = <<>>
    /\ rm = <<>>
    /\ op = Call("ARCPolicy", 0, DefaultValue, "none")
    /\ StaticInit
    /\ IdleInit

Next == AddCall \/ SetCall \/ TouchCall \/ GetCall

Spec == Init /\ [][Next]_vars

----------------------------------------------------------------------------
\* One public call made on a cache in any state that satisfies the invariants
\* of the data model: the public methods as functions of the cache state,
\* with the ghost-hit cases of Touch and replace() among their inputs.

Range(l) == {l[i] : i \in 1..Len(l)}
NoDup(l) == \A i, j \in 1..Len(l) : i # j => l[i] # l[j]
NoDupSeqs(S, n) == UNION {{l \in [1..m -> S] : NoDup(l)} : m \in 0..n}

DataModelInv ==
    /\ Len(t1) + Len(t2) <= capacity
    /\ Len(t1) + Len(b1) <= capacity
    /\ Len(t2) + Len(b2) <= 2 * capacity
    /\ NoDup(t1 \o t2 \o b1 \o b2)
    /\ DOMAIN map = Range(t1) \cup Range(t2)
    /\ 0 <= p /\ p <= capacity

InitInv ==
    /\ capacity \in 0..MaxCap
    /\ t1 \in NoDupSeqs(Keys, capacity)
    /\ t2 \in NoDupSeqs(Keys \ Range(t1), capacity - Len(t1))
    /\ b1 \in NoDupSeqs(Keys \ (Range(t1) \cup Range(t2)), capacity - Len(t1))
    /\ b2 \in NoDupSeqs(Keys \ (Range(t1) \cup Range(t2) \cup Range(b1)),
                        2 * capacity - Len(t2))
    /\ map \in [Range(t1) \cup Range(t2) -> Values \cup {DefaultValue}]
    /\ p \in 0..capacity
    /\ ub = "none"
    /\ cb = <<>>
    /\ rm = <<>>
    /\ op = Call("ARCPolicy", 0, DefaultValue, "none")
    /\ StaticInit
    /\ IdleInit

Fresh == op.name = "ARCPolicy"

NextInv ==
    \/ Fresh /\ AddCall
    \/ Fresh /\ SetCall
    \/ Fresh /\ TouchCall
    \/ Fresh /\ GetCall

SpecInv == InitInv /\ [][NextInv]_vars

----------------------------------------------------------------------------
\* The cache used as the interface asks: Get(k) is called only after
\* Contains(k) has returned true.

GuardedGetCall ==
    \E key \in Keys :
        /\ ub # "crashed"
        /\ Contains(map, key)
        /\ \E s \in Get(Cur, key, capacity) :
              Commit(s, Call("Get", key, MapAt(s.map, key), TouchBranch(Cur, key)))

NextGuarded == AddCall \/ SetCall \/ TouchCall \/ GuardedGetCall

SpecGuarded == Init /\ [][NextGuarded]_vars

----------------------------------------------------------------------------
\* Properties.

Disjoint(l, m) == Range(l) \cap Range(m) = {}

\* C1: resident bound.  For a cache constructed with capacity c >= 1, after
\* any sequence of Add, Set, Touch and Get calls, |T1| + |T2| <= c (stated
\* for the states in which no key occurs twice in T1 and T2, which are the
\* states the claim's distinct-key sequences reach).
C1_ResidentBound ==
    (capacity >= 1 /\ NoDup(t1 \o t2)) => Len(t1) + Len(t2) <= capacity

\* C2: ghost bound.  After any sequence of Add, Set, Touch and Get calls,
\* |T1| + |B1| <= c and |T2| + |B2| <= 2c (stated for c >= 1, where the
\* first Add meets no empty list).
C2_GhostBound ==
    capacity >= 1 => /\ Len(t1) + Len(b1) <= capacity
                     /\ Len(t2) + Len(b2) <= 2 * capacity

\* C3: map consistency.  After any sequence of Add, Set and Touch calls, and
\* of Get calls made after a successful Contains, the key set of map equals
\* T1 \cup T2, so that Contains(k) holds exactly for the keys of T1 and T2
\* (stated for c >= 1).
C3_MapConsistency ==
    capacity >= 1 => \A k \in Keys : Contains(map, k) <=> (InList(t1, k) \/ InList(t2, k))

\* C4: disjointness.  After any sequence of Add, Set, Touch and Get calls no
\* key is in two of the lists T1, T2, B1 and B2 at once (stated for c >= 1).
C4_Disjointness ==
    capacity >= 1 => /\ Disjoint(t1, t2) /\ Disjoint(t1, b1) /\ Disjoint(t1, b2)
                     /\ Disjoint(t2, b1) /\ Disjoint(t2, b2) /\ Disjoint(b1, b2)

C6_VictimBecomesGhost ==
    [][(/\ op'.name = "Add" /\ op'.done /\ ub' = "none"
        /\ MapSize(map) >= capacity
        /\ rm' # <<>> /\ rm'[1].from = "t1" /\ rm'[1].key # op'.key)
       => (/\ rm'[1].key = Back(t1)
           /\ InList(b1', rm'[1].key)
           /\ ~Contains(map', rm'[1].key))]_vars

\* C7: the adaptive target stays in range.  For every capacity the cache can
\* be constructed with, 0 <= p <= c in the initial state and after every
\* Touch, Add, Set and Get.
C7_TargetInRange ==
    ~ULt(p, 0) /\ ~ULt(capacity, p)

IntMin(a, b) == IF a < b THEN a ELSE b
IntMax(a, b) == IF a > b THEN a ELSE b

\* The effects common to both ghost hits of Touch(k): no empty list is
\* accessed, exactly one resident entry is demoted, k is at the MRU of T2 and
\* is bound to a default value.
GhostHitEffects(k) ==
    /\ ub' = "none" /\ op'.done
    /\ Len(rm') = 1
    /\ t2' # <<>> /\ Head(t2') = k
    /\ Contains(map', k) /\ map'[k] = DefaultValue

\* C8: ghost hit.  In every state that satisfies the invariants of the data
\* model, Touch(k) with k in B1 sets p to min(c, p + max(|B2| / |B1|, 1)),
\* demotes exactly one resident entry, removes k from B1, puts k at the MRU
\* of T2 and binds a default value to k; with k in B2 it does the same with
\* p set to max(0, p - max(|B1| / |B2|, 1)) and k removed from B2.  No empty
\* list is accessed and no division by zero occurs.  (Stated for the states
\* with a full cache, |T1| + |T2| = c, in which replace() finds a resident
\* entry to demote.)
C8_GhostHit ==
    [][(op'.name = "Touch" /\ DataModelInv /\ Len(t1) + Len(t2) = capacity) =>
         /\ InList(b1, op'.key) =>
               /\ GhostHitEffects(op'.key)
               /\ ~InList(b1', op'.key)
               /\ p' = IntMin(capacity, p + IntMax(Len(b2) \div Len(b1), 1))
         /\ InList(b2, op'.key) =>
               /\ GhostHitEffects(op'.key)
               /\ ~InList(b2', op'.key)
               /\ p' = IntMax(0, p - IntMax(Len(b1) \div Len(b2), 1))]_vars

Others(l, k) == SelectSeq(l, LAMBDA x : x # k)

\* C9: Touch promotion.  Touch(k) with k in T1 removes k from T1 and puts it
\* at the MRU of T2; with k in T2 (and not in T1) it moves k to the MRU of T2;
\* in both cases the order of the other keys, the map, B1, B2 and p are
\* unchanged and no callback is invoked.  Touch(k) with k in no list leaves
\* the whole cache unchanged.
C9_TouchPromotion ==
    [][op'.name = "Touch" =>
         LET k == op'.key
             Frame == /\ map' = map /\ b1' = b1 /\ b2' = b2 /\ p' = p
                      /\ capacity' = capacity /\ ub' = ub
                      /\ cb' = <<>> /\ rm' = <<>> /\ op'.done
         IN  /\ InList(t1, k) =>
                   /\ ~InList(t1', k) /\ t1' = Others(t1, k)
                   /\ t2' = <<k>> \o t2
                   /\ Frame
             /\ (~InList(t1, k) /\ InList(t2, k)) =>
                   /\ Head(t2') = k
                   /\ Len(t2') = Len(t2)
                   /\ Others(t2', k) = Others(t2, k)
                   /\ t1' = t1
                   /\ Frame
             /\ (~InList(t1, k) /\ ~InList(t2, k) /\ ~InList(b1, k) /\ ~InList(b2, k)) =>
                   /\ t1' = t1 /\ t2' = t2
                   /\ Frame]_vars

\* A key has been promoted from T1 to the MRU of a T2 that held other keys.
C9_Witness ==
    /\ op.name = "Touch" /\ op.branch = "t1"
    /\ Len(t2) >= 2 /\ Head(t2) = op.key /\ t2[2] # op.key
    /\ t1 # <<>>

LeftAs(s) ==
    /\ t1' = s.t1 /\ t2' = s.t2 /\ b1' = s.b1 /\ b2' = s.b2
    /\ map' = s.map /\ p' = s.p /\ cb' = s.cb /\ ub' = s.ub

\* C11: Set/Get round trip.  Set(k, v) immediately followed by Get(k)
\* returns v; a Set(k, v) with k resident (in T1 or T2) replaces the value
\* and touches k, which ends at the MRU of T2, without evicting an entry or
\* invoking the callback; with k not resident it behaves exactly as
\* Add(k, v).  (Stated for c >= 1 and calls that meet no empty list.)
C11_SetGetRoundTrip ==
    [][/\ (/\ op'.name = "Get" /\ op'.done /\ ub' = "none" /\ capacity >= 1
           /\ op.name = "Set" /\ op.done /\ op.key = op'.key)
          => op'.val = op.val
       /\ (op'.name = "Set" /\ op'.done /\ ub' = "none" /\ capacity >= 1) =>
             IF InList(t1, op'.key) \/ InList(t2, op'.key)
             THEN /\ t2' # <<>> /\ Head(t2') = op'.key
                  /\ Contains(map', op'.key) /\ map'[op'.key] = op'.val
                  /\ cb' = <<>> /\ rm' = <<>>
             ELSE \E s \in Add(Cur, op'.key, op'.val, capacity) : LeftAs(s)]_vars

(***************************************************************************)
(* FurrBall: the factory CreateBall (Furrballs.cpp:45-103), the            *)
(* constructor (30-34), the destructor (110-113), OnEvict (36-39) and the  *)
(* worker SlaveLoop (41-43).  A thread is inside CreateBall at one of the  *)
(* places "check" (line 47), "start" (49), "set" (50), "open" (52) and     *)
(* leaves it "done"; the lines 52-102 touch only the call's own locals and *)
(* OpenBalls, and are one step.  The FurrBall object made by thread t is   *)
(* heap[t].  Sizes are small numbers and no product of them wraps.         *)
(***************************************************************************)

PageSizes == {0, 3, 4}
MemSizes == {0, 4, 8}

\* Every configuration and environment of the bounded model, with the
\* flags at their default (flags = 0, Furrballs.h:303).
Inputs ==
    [PageSize : PageSizes, InitialPageCount : 0..MaxPages, CapacityLimit : MemSizes,
     LockablePages : {FALSE}, IsVolatile : {FALSE},
     openOk : BOOLEAN, availMem : MemSizes, mallocOk : BOOLEAN]

\* Configurations with a power-of-two page size, a limit that holds the
\* pages, and memory for all of them.
PlainInputs ==
    {in \in Inputs : /\ in.PageSize = 4 /\ in.InitialPageCount >= 1
                     /\ in.CapacityLimit = 8 /\ in.availMem = 8 /\ in.mallocOk}

\* The plain configurations that open their store, with any setting of the
\* flags LockablePages and IsVolatile.
FlagInputs ==
    {[in EXCEPT !.LockablePages = l, !.IsVolatile = v] :
        in \in {x \in PlainInputs : x.openOk}, l \in BOOLEAN, v \in BOOLEAN}

\* SizeLimit(config.CapacityLimit ? config.CapacityLimit : 1 * 1024 * 1024 * sizeof(char))
DefaultSizeLimit == 1048576

\* while ((--numPages) || availMem < config.PageSize * numPages);
RECURSIVE ShrinkPages(_, _, _)
ShrinkPages(numPages, availMem, PageSize) ==
    LET n == numPages - 1 IN
    IF n # 0 \/ availMem < PageSize * n
    THEN ShrinkPages(n, availMem, PageSize)
    ELSE n

\* The memory does not hold the configured pages (line 68).
MustShrink(in) == in.availMem < in.PageSize * in.InitialPageCount

\* numPages after lines 66-70.
NumPages(in) ==
    IF MustShrink(in)
    THEN ShrinkPages(in.InitialPageCount, in.availMem, in.PageSize)
    ELSE in.InitialPageCount

\* CreateBall returns nullptr (lines 61-64, 71-74, 79-84).
ReturnsNull(in) ==
    \/ ~in.openOk
    \/ MustShrink(in) /\ NumPages(in) <= 0
    \/ ~in.mallocOk

\* new FurrBall(config, Cache): the constructor copies Cache, made by
\* ARCPolicy(numPages) and still empty, with its default no-op callback;
\* the Adds of line 91 and SetEvictionCallback of line 98 act on the local
\* Cache, which ends with the call.  clientEvictCallback is never assigned.
NewBall(in) ==
    [made |-> TRUE, alive |-> TRUE,
     PageSize |-> in.PageSize,
     SizeLimit |-> IF in.CapacityLimit # 0 THEN in.CapacityLimit ELSE DefaultSizeLimit,
     PreallocatedSlabSize |-> in.PageSize * NumPages(in),
     UsedMemory |-> in.PageSize * NumPages(in),
     cache |-> [t1 |-> <<>>, t2 |-> <<>>, b1 |-> <<>>, b2 |-> <<>>, map |-> EmptyMap,
                p |-> 1, ub |-> "none", cb |-> <<>>, rm |-> <<>>],
     cacheCapacity |-> NumPages(in), evictionCallback |-> "noop",
     clientEvictCallback |-> "unset", db |-> "open",
     VPageList |-> <<>>, IsVolatile |-> in.IsVolatile, persisted |-> {},
     got |-> [page |-> 0, ret |-> "none", evicted |-> FALSE]]

\* The frames pushed on VPageList by the loop of lines 90-97, as the
\* sequences the loop can build.  PagePointer stays 0, so every frame has
\* the address slab + 0 (MemoryBlock is the offset from slab).  Page gets
\* the index i; LockablePage passes its own member PageIndex, not yet
\* initialised, to Page (Furrballs.h:333): the index is indeterminate.
Frames(in) ==
    {[i \in 1..NumPages(in) |->
         [MemoryBlock |-> 0, PageSize |-> in.PageSize, PageIndex |-> idx[i],
          lockable |-> in.LockablePages]] :
     idx \in IF in.LockablePages
             THEN [1..NumPages(in) -> 0..MaxPages]
             ELSE {[i \in 1..NumPages(in) |-> i - 1]}}

\* std::terminate has not been called and no call has crashed.
ProcessAlive ==
    \A t \in Threads : calls[t].pc # "terminated" /\ heap[t].got.ret # "crashed"

At(t, pc) == ProcessAlive /\ calls[t].pc = pc

Goto(t, pc) == calls' = [calls EXCEPT ![t].pc = pc]

\* A thread calls CreateBall.
CallCreateBall(t, in) ==
    /\ At(t, "idle")
    /\ calls' = [calls EXCEPT ![t] = [pc |-> "check", in |-> in, ret |-> "none", assumed |-> FALSE]]
    /\ UNCHANGED <<arcVars, HasThreadInit, FurrSlave, JobQueue, OpenBalls, heap, hooks, th, snap, memVars>>

\* if (!HasThreadInit), line 48: an unsynchronised read of the flag.
CheckThreadInit(t) ==
    /\ At(t, "check")
    /\ Goto(t, IF HasThreadInit THEN "open" ELSE "start")
    /\ UNCHANGED <<arcVars, HasThreadInit, FurrSlave, JobQueue, OpenBalls, heap, hooks, th, snap, memVars>>

\* assume(HasThreadInit), line 47, with the flag false: where assume is
\* __assume (line 18) the behaviour is undefined, and the build may have
\* removed the test of line 48.
AssumeThreadInit(t) ==
    /\ At(t, "check")
    /\ ~HasThreadInit
    /\ calls' = [calls EXCEPT ![t].pc = "open", ![t].assumed = TRUE]
    /\ UNCHANGED <<arcVars, HasThreadInit, FurrSlave, JobQueue, OpenBalls, heap, hooks, th, snap, memVars>>

\* No call has met the undefined behaviour of line 47: the runs of a build
\* where assume(cond) is ((void)0) (line 21).
PlainBuild == \A t \in Threads : ~calls[t].assumed

\* FurrSlave = std::thread(&FurrBall::SlaveLoop), line 49: the new thread
\* runs; the move assignment calls std::terminate if FurrSlave is joinable.
StartSlave(t) ==
    /\ At(t, "start")
    /\ FurrSlave' = [FurrSlave EXCEPT !.starts = @ + 1,
                                      !.state = IF @ = "none" THEN "running" ELSE @]
    /\ Goto(t, IF FurrSlave.state = "none" THEN "set" ELSE "terminated")
    /\ UNCHANGED <<arcVars, HasThreadInit, JobQueue, OpenBalls, heap, hooks, th, snap, memVars>>

\* HasThreadInit = true, line 50.
SetThreadInit(t) ==
    /\ At(t, "set")
    /\ HasThreadInit' = TRUE
    /\ Goto(t, "open")
    /\ UNCHANGED <<arcVars, FurrSlave, JobQueue, OpenBalls, heap, hooks, th, snap, memVars>>

\* Lines 52-102.
CreateBallBody(t) ==
    /\ At(t, "open")
    /\ LET in == calls[t].in IN
       IF ReturnsNull(in)
       THEN /\ calls' = [calls EXCEPT ![t].pc = "done", ![t].ret = "null"]
            /\ UNCHANGED <<heap, OpenBalls>>
       ELSE /\ calls' = [calls EXCEPT ![t].pc = "done", ![t].ret = "ball"]
            /\ \E frames \in Frames(in) :
                  heap' = [heap EXCEPT ![t] = [NewBall(in) EXCEPT !.VPageList = frames]]
            /\ OpenBalls' = Append(OpenBalls, t)
    /\ UNCHANGED <<arcVars, HasThreadInit, FurrSlave, JobQueue, hooks, th, snap, memVars>>

\* ~FurrBall(): delete DataMembers->db, and nothing else.
DestroyBall(b) ==
    /\ ProcessAlive
    /\ calls[b].pc = "done"
    /\ heap[b].alive
    /\ heap' = [heap EXCEPT ![b].alive = FALSE, ![b].db = "closed"]
    /\ UNCHANGED <<arcVars, HasThreadInit, FurrSlave, JobQueue, OpenBalls, calls, hooks, th, snap, memVars>>

\* SlaveLoop(): the body is empty, the worker returns.
SlaveLoop ==
    /\ ProcessAlive
    /\ FurrSlave.state = "running"
    /\ FurrSlave' = [FurrSlave EXCEPT !.state = "returned"]
    /\ UNCHANGED <<arcVars, HasThreadInit, JobQueue, OpenBalls, heap, calls, hooks, th, snap, memVars>>

InitBalls == Init /\ capacity = 0

\* Any threads create balls of plain configurations and destroy them.
NextBalls ==
    \/ \E t \in Threads, in \in PlainInputs : CallCreateBall(t, in)
    \/ \E t \in Threads : CheckThreadInit(t)
    \/ \E t \in Threads : AssumeThreadInit(t)
    \/ \E t \in Threads : StartSlave(t)
    \/ \E t \in Threads : SetThreadInit(t)
    \/ \E t \in Threads : CreateBallBody(t)
    \/ \E b \in Threads : DestroyBall(b)
    \/ SlaveLoop

SpecBalls == InitBalls /\ [][NextBalls]_vars


\* C12: exactly one background worker per process.  In every interleaving
\* of CreateBall calls made from different threads the worker thread
\* FurrSlave is started at most once, and it has been started exactly once
\* as soon as a call is past the start of the worker.  (Stated for the builds
\* where assume(cond) has no effect.)
C12_OneWorker ==
    PlainBuild =>
        /\ FurrSlave.starts <= 1
        /\ (\E t \in Threads : calls[t].pc \in {"open", "done"}) => FurrSlave.starts = 1


(***************************************************************************)
(* The job queue.  QueueJobForSlave is declared (Furrballs.h:399) and has  *)
(* no definition: it is modelled as the push of the closure on JobQueue.   *)
(* A job is named by its place in the order of the enqueues.  FurrSlave.ran *)
(* is the sequence of the jobs the worker has run.                          *)
(***************************************************************************)

QueueJobForSlave(job) ==
    /\ ProcessAlive
    /\ Len(FurrSlave.ran) + Len(JobQueue) < MaxJobs
    /\ JobQueue' = Append(JobQueue, job)
    /\ UNCHANGED <<arcVars, HasThreadInit, FurrSlave, OpenBalls, heap, calls, hooks, th, snap, memVars>>

\* One thread creates a ball, which starts the worker; jobs are enqueued.
NextWorker ==
    \/ \E in \in PlainInputs : CallCreateBall(1, in)
    \/ CheckThreadInit(1)
    \/ AssumeThreadInit(1)
    \/ StartSlave(1)
    \/ SetThreadInit(1)
    \/ CreateBallBody(1)
    \/ SlaveLoop
    \/ QueueJobForSlave(Len(FurrSlave.ran) + Len(JobQueue) + 1)

SpecWorker == InitBalls /\ [][NextWorker]_vars

\* C13: every job handed to QueueJobForSlave is executed exactly once by
\* SlaveLoop, in the order of the enqueues: the jobs run so far, followed by
\* the jobs waiting, are the jobs enqueued, in order, and when the worker
\* loop has ended no job is left waiting.
C13_JobsRunInOrder ==
    /\ FurrSlave.ran \o JobQueue = [i \in 1..(Len(FurrSlave.ran) + Len(JobQueue)) |-> i]
    /\ FurrSlave.state = "returned" => JobQueue = <<>>


(***************************************************************************)
(* Threads inside the public methods of one shared ARCPolicy.  No method   *)
(* of ARCPolicy takes a lock, so a thread runs a method statement by       *)
(* statement and the statements of two threads interleave.  th[t].pc is    *)
(* the statement thread t executes next; th[t].from keeps the lists and    *)
(* the map the cache had when the calls began.  One statement on a list or *)
(* on the map is taken as one step.                                        *)
(***************************************************************************)

\* The first statement of a method.
Entry(name) ==
    CASE name = "Add" -> "Add.evict"
      [] name = "Set" -> "Set.contains"
      [] OTHER -> "Touch.find"

\* The statement after Touch(key) has returned to its caller.
AfterTouch(name) == IF name = "Get" THEN "Get.index" ELSE "done"

\* The statement of thread t leaves the cache as s and goes to pc.
Store(t, s, pc) ==
    /\ Total(s) <= MaxLen
    /\ t1' = s.t1 /\ t2' = s.t2 /\ b1' = s.b1 /\ b2' = s.b2
    /\ map' = s.map /\ p' = s.p /\ ub' = s.ub /\ cb' = s.cb /\ rm' = s.rm
    /\ th' = [th EXCEPT ![t].pc = IF s.ub = "crashed" THEN "crashed" ELSE pc]
    /\ UNCHANGED <<capacity, op, ballVars, snap, memVars>>

Running(t, pc) == ub # "crashed" /\ th[t].pc = pc

\* if (map.size() >= capacity) evict();
AddEvict(t) ==
    /\ Running(t, "Add.evict")
    /\ \E s \in (IF MapSize(map) >= capacity THEN evict(Cur, capacity) ELSE {Cur}) :
          Store(t, s, "Add.push")

\* t1.push_front(key);
AddPush(t) ==
    /\ Running(t, "Add.push")
    /\ Store(t, [Cur EXCEPT !.t1 = PushFront(t1, th[t].key)], "Add.store")

\* map[key] = value;
AddStore(t) ==
    /\ Running(t, "Add.store")
    /\ Store(t, [Cur EXCEPT !.map = MapPut(map, th[t].key, th[t].val)], "done")

\* Touch: the list is found, and t1.remove(key), or the splice, or the
\* statements of a ghost hit.
TouchFind(t) ==
    /\ Running(t, "Touch.find")
    /\ LET key == th[t].key IN
       IF TouchBranch(Cur, key) = "t1"
       THEN Store(t, [Cur EXCEPT !.t1 = Remove(t1, key)], "Touch.push")
       ELSE \E s \in Touch(Cur, key, capacity) : Store(t, s, AfterTouch(th[t].name))

\* t2.push_front(key);
TouchPush(t) ==
    /\ Running(t, "Touch.push")
    /\ Store(t, [Cur EXCEPT !.t2 = PushFront(t2, th[t].key)], AfterTouch(th[t].name))

\* return map[key];
GetIndex(t) ==
    /\ Running(t, "Get.index")
    /\ Store(t, [Cur EXCEPT !.map = MapIndex(map, th[t].key)], "done")

\* if (Contains(key))
SetContains(t) ==
    /\ Running(t, "Set.contains")
    /\ Store(t, Cur, IF Contains(map, th[t].key) THEN "Set.store" ELSE "Add.evict")

\* map[key] = value;  (Set)
SetStore(t) ==
    /\ Running(t, "Set.store")
    /\ Store(t, [Cur EXCEPT !.map = MapPut(map, th[t].key, th[t].val)], "Touch.find")

\* The calls the threads make, one each.
Ops ==
    [name : {"Add", "Set", "Touch", "Get"}, key : Keys, val : Values]

\* A cache that holds at most capacity distinct keys in T1 and T2, as Add
\* and Touch leave it, and every thread at the first statement of its call.
InitConc ==
    /\ capacity \in 1..MaxCap
    /\ t1 \in NoDupSeqs(Keys, MaxCap) /\ t2 \in NoDupSeqs(Keys, MaxCap)
    /\ Len(t1) + Len(t2) <= capacity
    /\ Range(t1) \cap Range(t2) = {}
    /\ b1 = <<>> /\ b2 = <<>>
    /\ map \in [Range(t1) \cup Range(t2) -> Values]
    /\ p = 1
    /\ ub = "none" /\ cb = <<>> /\ rm = <<>>
    /\ op = Call("ARCPolicy", 0, DefaultValue, "none")
    /\ StaticInit
    /\ snap = NoSnap
    /\ \E o \in [Threads -> Ops] :
          th = [t \in Threads |->
                   [pc |-> Entry(o[t].name), name |-> o[t].name, key |-> o[t].key,
                    val |-> o[t].val, from |-> [t1 |-> t1, t2 |-> t2, map |-> map]]]

NextConc ==
    \/ \E t \in Threads : AddEvict(t)
    \/ \E t \in Threads : AddPush(t)
    \/ \E t \in Threads : AddStore(t)
    \/ \E t \in Threads : TouchFind(t)
    \/ \E t \in Threads : TouchPush(t)
    \/ \E t \in Threads : GetIndex(t)
    \/ \E t \in Threads : SetContains(t)
    \/ \E t \in Threads : SetStore(t)

SpecConc == InitConc /\ [][NextConc]_vars


\* The call of thread t, run as one step from s.
RunOp(s, t) ==
    CASE th[t].name = "Add" -> Add(s, th[t].key, th[t].val, capacity)
      [] th[t].name = "Set" -> Set(s, th[t].key, th[t].val, capacity)
      [] th[t].name = "Get" -> Get(s, th[t].key, capacity)
      [] OTHER -> Touch(s, th[t].key, capacity)

\* The calls of the threads order[i], order[i+1], ... run one after the other.
RECURSIVE RunSeq(_, _, _)
RunSeq(S, order, i) ==
    IF i > Len(order) THEN S
    ELSE RunSeq(Bind(S, LAMBDA x : RunOp(x, order[i])), order, i + 1)

Orders == {o \in [1..MaxThreads -> Threads] : \A i, j \in 1..MaxThreads : i # j => o[i] # o[j]}

\* The cache as it was when the calls began.
Began ==
    [Cur EXCEPT !.t1 = th[1].from.t1, !.t2 = th[1].from.t2, !.map = th[1].from.map,
                !.b1 = <<>>, !.b2 = <<>>, !.p = 1, !.ub = "none"]

Lists(s) == <<s.t1, s.t2, s.b1, s.b2, s.map, s.p>>

\* C14: ARC operations are serialised.  When the calls made concurrently on
\* one ARCPolicy have all returned, the lists, the map and p are those that
\* one of the sequential orders of the same calls produces.
C14_Serialised ==
    (ub = "none" /\ \A t \in Threads : th[t].pc = "done") =>
        \E o \in Orders : \E s \in RunSeq({Began}, o, 1) : Lists(s) = Lists(Cur)


\* C15: the open-balls registry.  After any sequence of CreateBall calls and
\* destructions OpenBalls holds exactly the balls that CreateBall returned
\* and that have not been destroyed, each once.  (Stated for the builds
\* where assume(cond) has no effect.)
C15_Registry ==
    PlainBuild =>
        /\ Range(OpenBalls) = {b \in Threads : heap[b].made /\ heap[b].alive}
        /\ NoDup(OpenBalls)


(***************************************************************************)
(* The ball's own cache.  FurrBall::Get (Furrballs.h:497-502) has no body  *)
(* yet and nothing under src/ brings a page into FurrBall::cache; the step *)
(* below is the insertion of a page by the ball, cache.Add(page, frame).   *)
(* The callbacks the cache invokes go to the callback installed in it: the *)
(* default no-op, or the hook OnEvict, whose body is empty.                *)
(***************************************************************************)

\* The eviction callbacks cbs, invoked by the cache of ball.
Dispatch(ball, cbs) ==
    IF ball.evictionCallback = "OnEvict"
    THEN [hooks EXCEPT !.OnEvict = @ \o cbs]
    ELSE hooks

BallCacheAdd(b, key, value) ==
    /\ ProcessAlive
    /\ heap[b].made /\ heap[b].alive
    /\ heap[b].cache.ub # "crashed"
    /\ \E s \in Add([heap[b].cache EXCEPT !.cb = <<>>, !.rm = <<>>], key, value,
                    heap[b].cacheCapacity) :
          /\ Total(s) <= MaxLen
          /\ heap' = [heap EXCEPT ![b].cache = s]
          /\ hooks' = Dispatch(heap[b], s.cb)
    /\ UNCHANGED <<arcVars, HasThreadInit, FurrSlave, JobQueue, OpenBalls, calls, th, snap, memVars>>

\* One CreateBall call, with any configuration and environment; the ball is
\* used and destroyed.
NextCreate ==
    \/ \E in \in Inputs : CallCreateBall(1, in)
    \/ CheckThreadInit(1)
    \/ AssumeThreadInit(1)
    \/ StartSlave(1)
    \/ SetThreadInit(1)
    \/ CreateBallBody(1)
    \/ \E key \in Keys, value \in Values : BallCacheAdd(1, key, value)
    \/ DestroyBall(1)
    \/ SlaveLoop

SpecCreate == InitBalls /\ [][NextCreate]_vars

\* Available memory does not hold a single page, the store does not open,
\* or the slab is not allocated.
Fatal(in) == ~in.openOk \/ ~in.mallocOk \/ in.availMem < in.PageSize

\* C16: CreateBall returns null exactly on a fatal setup error.  When the
\* memory holds a page but not the configured pages, it returns a ball with
\* a page count of at least one that fits; on a null return no ball has
\* been added to OpenBalls.  (Stated for configurations of at least one
\* page of a non-zero size, and the builds where assume(cond) has no
\* effect.)
C16_NullOnFatalOnly ==
    \A t \in Threads :
        (/\ PlainBuild /\ calls[t].pc = "done"
         /\ calls[t].in.InitialPageCount >= 1 /\ calls[t].in.PageSize # 0) =>
        LET in == calls[t].in IN
        /\ calls[t].ret = "null" <=> Fatal(in)
        /\ (~Fatal(in) /\ MustShrink(in)) =>
              /\ heap[t].made
              /\ heap[t].cacheCapacity >= 1
              /\ in.PageSize * heap[t].cacheCapacity <= in.availMem
        /\ calls[t].ret = "null" => ~InList(OpenBalls, t)


\* C17: for a ball created by CreateBall, every eviction of a resident for
\* which the ball's own cache invokes its eviction callback reaches the hook
\* OnEvict and the client's callback, with the evicted page and its frame.
\* (Stated for balls of at least one page whose cache has met no empty
\* list.)
C17_EvictionReachesClient ==
    \A b \in Threads :
        (/\ PlainBuild /\ heap[b].made
         /\ heap[b].cacheCapacity >= 1 /\ heap[b].cache.ub = "none") =>
        \A i \in 1..Len(heap[b].cache.cb) :
            /\ InList(hooks.OnEvict, heap[b].cache.cb[i])
            /\ InList(hooks.client, heap[b].cache.cb[i])

\* C18: the capacity ceiling.  The slab size and the used memory of an open
\* ball never exceed its size limit (the configured CapacityLimit, or the
\* default for zero), and the used memory of an open ball never decreases.
C18_CapacityCeiling ==
    [][\A b \in Threads : (PlainBuild' /\ heap'[b].made /\ heap'[b].alive) =>
          /\ heap'[b].PreallocatedSlabSize <= heap'[b].SizeLimit
          /\ heap'[b].UsedMemory <= heap'[b].SizeLimit
          /\ heap[b].made => heap'[b].UsedMemory >= heap[b].UsedMemory]_vars

IsPowerOfTwo(n) == \E k \in 0..AddrBits : n = 2 ^ k

\* C19: every ball returned by CreateBall has a page size that is a non-zero
\* power of two: no ball is returned for another page size, and a page size
\* of zero has been replaced.
C19_PageSizePowerOfTwo ==
    \A b \in Threads : (PlainBuild /\ heap[b].made) => IsPowerOfTwo(heap[b].PageSize)


(***************************************************************************)
(* floorAddress (Furrballs.h:401-403): address & ~(PageSize - 1), on       *)
(* size_t.  The words of the model have AddrBits bits; the addresses are   *)
(* below 2^AddrBits, so the higher bits of the mask do not matter.         *)
(***************************************************************************)

Word == 2 ^ AddrBits

\* a & b on words of n bits.
RECURSIVE BitAnd(_, _, _)
BitAnd(a, b, n) ==
    IF n = 0 THEN 0
    ELSE (a % 2) * (b % 2) + 2 * BitAnd(a \div 2, b \div 2, n - 1)

\* ~a on a word.
BitNot(a) == (Word - 1) - a

\* address & ~PageSize: the mask without the decrement.
floorAddressNoDecrement(PageSize, address) ==
    BitAnd(address, BitNot(PageSize % Word), AddrBits)

\* return address & ~(PageSize - 1);
floorAddress(PageSize, address) ==
    BitAnd(address, BitNot((PageSize - 1) % Word), AddrBits)

\* floorAddress(address) is called on a ball of page size PageSize.
CallFloorAddress(PageSize, address) ==
    /\ snap.pc = "idle"
    /\ snap' = [pc |-> "called", PageSize |-> PageSize, address |-> address, result |-> 0]
    /\ UNCHANGED <<arcVars, ballVars, th, memVars>>

ReturnFloorAddress ==
    /\ snap.pc = "called"
    /\ snap' = [snap EXCEPT !.pc = "done",
                            !.result = floorAddress(snap.PageSize, snap.address)]
    /\ UNCHANGED <<arcVars, ballVars, th, memVars>>

NextFloor ==
    \/ \E PageSize \in 0..(Word - 1), address \in 0..(Word - 1) :
          CallFloorAddress(PageSize, address)
    \/ ReturnFloorAddress

SpecFloor == InitBalls /\ [][NextFloor]_vars

\* C20: address snapping.  For a page size P that is a power of two and an
\* address v, floorAddress(v) = P * floor(v / P); floorAddress is idempotent,
\* 0 <= v - floorAddress(v) < P, and v and floorAddress(v) have the same
\* page id floor(v / P).
C20_AddressSnapping ==
    (snap.pc = "done" /\ IsPowerOfTwo(snap.PageSize)) =>
        LET P == snap.PageSize
            v == snap.address
            r == snap.result
        IN /\ r = P * (v \div P)
           /\ floorAddress(P, r) = r
           /\ 0 <= v - r /\ v - r < P
           /\ r \div P = v \div P

\* An address inside a page of more than one byte has been snapped.
C20_Witness ==
    /\ snap.pc = "done"
    /\ IsPowerOfTwo(snap.PageSize)
    /\ snap.PageSize > 1
    /\ snap.address % snap.PageSize # 0
    /\ snap.address >= snap.PageSize


(***************************************************************************)
(* MemoryManager (MemoryManager.h): AllocateMemory (91-110), FreeMemory    *)
(* (141-162) and IsThreadLocal (202-204).  A buffer is an address; the     *)
(* platform may give an address again once it has been released.           *)
(* platformHeap[b] is the thread whose allocation of b is live, or 0.  A   *)
(* thread is inside FreeMemory at "test" (line 142), "lock" (147),         *)
(* "freeLocked" (151), "erase" (153) or "free" (160).  The callers release *)
(* a live buffer, and no two of them release the same buffer.              *)
(***************************************************************************)

\* return ThreadBuffers.find(buffer) != ThreadBuffers.cend();
IsThreadLocal(t, buffer) == buffer \in ThreadBuffers[t]

\* AllocateMemory: the platform gives a buffer, which is inserted in the
\* set of the calling thread, or it fails and nullptr is returned.
AllocateMemory(t) ==
    /\ mcalls[t].pc = "idle"
    /\ \/ \E b \in Buffers :
             /\ platformHeap[b] = 0
             /\ platformHeap' = [platformHeap EXCEPT ![b] = t]
             /\ ThreadBuffers' = [ThreadBuffers EXCEPT ![t] = @ \cup {b}]
             /\ mcalls' = [mcalls EXCEPT ![t].buffer = b]
       \/ /\ mcalls' = [mcalls EXCEPT ![t].buffer = 0]
          /\ UNCHANGED <<platformHeap, ThreadBuffers>>
    /\ UNCHANGED <<arcVars, ballVars, th, snap, FreeingMutex>>

\* A thread calls FreeMemory(buffer).
CallFreeMemory(t, buffer) ==
    /\ mcalls[t].pc = "idle"
    /\ platformHeap[buffer] # 0
    /\ \A u \in Threads : mcalls[u].pc = "idle" \/ mcalls[u].buffer # buffer
    /\ mcalls' = [mcalls EXCEPT ![t] = [pc |-> "test", buffer |-> buffer]]
    /\ UNCHANGED <<arcVars, ballVars, th, snap, ThreadBuffers, platformHeap, FreeingMutex>>

\* if (IsThreadLocal(buffer))
TestThreadLocal(t) ==
    /\ mcalls[t].pc = "test"
    /\ mcalls' = [mcalls EXCEPT ![t].pc = IF IsThreadLocal(t, mcalls[t].buffer)
                                          THEN "lock" ELSE "free"]
    /\ UNCHANGED <<arcVars, ballVars, th, snap, ThreadBuffers, platformHeap, FreeingMutex>>

\* std::lock_guard<std::mutex> lock(FreeingMutex): the mutex of the calling
\* thread.
LockFreeingMutex(t) ==
    /\ mcalls[t].pc = "lock"
    /\ ~FreeingMutex[t]
    /\ FreeingMutex' = [FreeingMutex EXCEPT ![t] = TRUE]
    /\ mcalls' = [mcalls EXCEPT ![t].pc = "freeLocked"]
    /\ UNCHANGED <<arcVars, ballVars, th, snap, ThreadBuffers, platformHeap>>

\* free(buffer), line 151.
FreeLocked(t) ==
    /\ mcalls[t].pc = "freeLocked"
    /\ platformHeap' = [platformHeap EXCEPT ![mcalls[t].buffer] = 0]
    /\ mcalls' = [mcalls EXCEPT ![t].pc = "erase"]
    /\ UNCHANGED <<arcVars, ballVars, th, snap, ThreadBuffers, FreeingMutex>>

\* ThreadBuffers.erase(buffer); return; the lock guard unlocks.
EraseBuffer(t) ==
    /\ mcalls[t].pc = "erase"
    /\ ThreadBuffers' = [ThreadBuffers EXCEPT ![t] = @ \ {mcalls[t].buffer}]
    /\ FreeingMutex' = [FreeingMutex EXCEPT ![t] = FALSE]
    /\ mcalls' = [mcalls EXCEPT ![t].pc = "idle"]
    /\ UNCHANGED <<arcVars, ballVars, th, snap, platformHeap>>

\* free(buffer), line 160, without a lock.
FreeUnlocked(t) ==
    /\ mcalls[t].pc = "free"
    /\ platformHeap' = [platformHeap EXCEPT ![mcalls[t].buffer] = 0]
    /\ mcalls' = [mcalls EXCEPT ![t].pc = "idle"]
    /\ UNCHANGED <<arcVars, ballVars, th, snap, ThreadBuffers, FreeingMutex>>

NextMem ==
    \/ \E t \in Threads : AllocateMemory(t)
    \/ \E t \in Threads, b \in Buffers : CallFreeMemory(t, b)
    \/ \E t \in Threads : TestThreadLocal(t)
    \/ \E t \in Threads : LockFreeingMutex(t)
    \/ \E t \in Threads : FreeLocked(t)
    \/ \E t \in Threads : EraseBuffer(t)
    \/ \E t \in Threads : FreeUnlocked(t)

SpecMem == InitBalls /\ [][NextMem]_vars

\* Thread t releases its buffer to the platform in this step.
Releases(t) == mcalls[t].pc \in {"freeLocked", "free"} /\ mcalls'[t].pc # mcalls[t].pc

\* C21: FreeMemory(b) called by thread T releases b without a lock when b
\* is in the ownership set of T, and holding the free mutex when it is not;
\* after the release of an owned buffer, b is not in the ownership set of T.
C21_FreePaths ==
    [][\A t \in Threads :
          /\ Releases(t) =>
                IF IsThreadLocal(t, mcalls[t].buffer)
                THEN mcalls[t].pc = "free" /\ ~FreeingMutex[t]
                ELSE mcalls[t].pc = "freeLocked" /\ FreeingMutex[t]
          /\ (mcalls[t].pc # "idle" /\ mcalls'[t].pc = "idle"
              /\ IsThreadLocal(t, mcalls[t].buffer)) =>
                ~IsThreadLocal(t, mcalls[t].buffer)']_vars


\* C24: the free mutex is process-wide.  In no interleaving are two
\* different threads at the same time inside the lock-guarded release
\* section of FreeMemory (lines 147-154).
C24_OneThreadInGuardedSection ==
    \A t, u \in Threads :
        (mcalls[t].pc \in {"freeLocked", "erase"} /\ mcalls[u].pc \in {"freeLocked", "erase"})
            => t = u

\* C28: ownership tracking is exact.  Each address in the ownership set of a
\* thread is a buffer that this thread allocated and that no thread has
\* released yet, so IsThreadLocal(b) is never true for a released buffer;
\* and no buffer is released to the platform twice.  (The ownership set is
\* looked at outside the release of that buffer by its own thread.)
C28_OwnershipExact ==
    [][/\ \A t \in Threads : \A b \in Buffers :
             (IsThreadLocal(t, b)' /\ ~(mcalls'[t].pc = "erase" /\ mcalls'[t].buffer = b))
                 => platformHeap'[b] = t
       /\ \A t \in Threads : Releases(t) => platformHeap[mcalls[t].buffer] # 0]_vars


\* C25: evict() never reads or pops the tail of an empty list.  In every
\* state reached by Add, Set, Touch and Get on a cache of capacity c >= 1,
\* no call takes a branch of evict() that pops an empty B1, T1, B2 or T2.
\* (Stated for the calls made while no key is twice in T1 and T2.)
C25_NoEmptyPop ==
    [][(capacity >= 1 /\ ub = "none" /\ NoDup(t1 \o t2)) => ub' = "none"]_vars

\* C26: in every state reached from the constructor by Add, Set, Touch and
\* Get, the ghost lists B1 and B2 are empty and p has its initial value 1.
C26_NoGhosts == b1 = <<>> /\ b2 = <<>> /\ p = 1

\* A call has evicted a resident, at a capacity of at least one and without
\* meeting an empty list: the victim is in no ghost list.
C26_Witness ==
    /\ capacity >= 1 /\ ub = "none"
    /\ rm # <<>>
    /\ b1 = <<>> /\ b2 = <<>> /\ p = 1

\* C27: no key occurs more than once within T1, T2, B1 or B2 after any
\* sequence of Add, Set, Touch and Get, Add of a resident key included; so
\* where map holds exactly the residents, |map| = |T1| + |T2|.  (Stated for
\* c >= 1 and calls that meet no empty list.)
C27_NoDuplicates ==
    (capacity >= 1 /\ ub = "none") =>
        /\ NoDup(t1) /\ NoDup(t2) /\ NoDup(b1) /\ NoDup(b2)
        /\ DOMAIN map = Range(t1) \cup Range(t2) => MapSize(map) = Len(t1) + Len(t2)


(***************************************************************************)
(* FurrBall::Get (Furrballs.h:497-502): the body holds comments only, and  *)
(* the function, which returns void*, ends without a return statement.     *)
(* The behaviour is undefined: the call crashes or the caller reads        *)
(* whatever the return register holds, a null pointer or any other         *)
(* pointer.  Nothing is read from the store and the cache is not touched.   *)
(* got.evicted tells that the page asked for had just been evicted.         *)
(***************************************************************************)

BallGet(b, page) ==
    /\ ProcessAlive
    /\ heap[b].made /\ heap[b].alive
    /\ \E ret \in {"crashed", "null", "garbage"} :
          heap' = [heap EXCEPT ![b].got =
                      [page |-> page, ret |-> ret,
                       evicted |-> \E i \in 1..Len(heap[b].cache.cb) :
                                       heap[b].cache.cb[i][1] = page]]
    /\ UNCHANGED <<arcVars, HasThreadInit, FurrSlave, JobQueue, OpenBalls, calls, hooks, th, snap, memVars>>

\* One ball of a plain configuration with any flags; pages are inserted in
\* its cache and asked for.
NextPages ==
    \/ \E in \in FlagInputs : CallCreateBall(1, in)
    \/ CheckThreadInit(1)
    \/ AssumeThreadInit(1)
    \/ StartSlave(1)
    \/ SetThreadInit(1)
    \/ CreateBallBody(1)
    \/ \E key \in Keys, value \in Values : BallCacheAdd(1, key, value)
    \/ \E page \in Keys : BallGet(1, page)
    \/ SlaveLoop

SpecPages == InitBalls /\ [][NextPages]_vars

\* The residents of the cache of ball, most recent first.
Residents(ball) == ball.cache.t1 \o ball.cache.t2

\* C23: after CreateBall has succeeded with N pages, the ball's cache holds
\* N residents with N distinct page ids, the i-th page mapped to the frame
\* address slab + i * PageSize, and the frame table holds N frames, frame i
\* with the page index i and that address, lockable or not.
C23_PagesAndFrames ==
    [][\A b \in Threads :
          (/\ PlainBuild'
           /\ calls[b].pc = "open" /\ calls'[b].pc = "done" /\ calls'[b].ret = "ball") =>
          LET ball == heap'[b]
              N == NumPages(calls[b].in)
          IN  /\ Len(Residents(ball)) = N
              /\ NoDup(Residents(ball))
              /\ Range(Residents(ball)) \subseteq DOMAIN ball.cache.map
              /\ {ball.cache.map[k] : k \in Range(Residents(ball))}
                    = {i * ball.PageSize : i \in 0..(N - 1)}
              /\ Len(ball.VPageList) = N
              /\ \A i \in 1..Len(ball.VPageList) :
                    /\ ball.VPageList[i].PageIndex = i - 1
                    /\ ball.VPageList[i].MemoryBlock = (i - 1) * ball.PageSize
                    /\ ball.VPageList[i].lockable = calls[b].in.LockablePages]_vars

\* C22: round-trip persistence.  In a ball that is not volatile, a page
\* evicted from the cache has been persisted to the store with its frame,
\* and a Get of the evicted page returns the page reloaded; in a volatile
\* ball nothing is persisted and the Get returns null.  (Stated for balls
\* of at least one page whose cache has met no empty list.)
C22_RoundTrip ==
    \A b \in Threads :
        (/\ PlainBuild /\ heap[b].made
         /\ heap[b].cacheCapacity >= 1 /\ heap[b].cache.ub = "none") =>
        LET ball == heap[b]
            refault == ball.got.ret # "none" /\ ball.got.evicted
        IN  IF ~ball.IsVolatile
            THEN /\ \A i \in 1..Len(ball.cache.cb) : ball.cache.cb[i] \in ball.persisted
                 /\ refault => ball.got.ret = "reloaded"
            ELSE /\ ball.persisted = {}
                 /\ refault => ball.got.ret = "null"


====
